---- MODULE Spec2Model ----
(***************************************************************************)
(* Model of pyloric/prior.py: construction of the box-uniform prior over   *)
(* the parameters of the pyloric network.                                  *)
(*                                                                         *)
(* Numbers.  Every real number of the program is represented by the        *)
(* integer  value * 10^8  (fixed point, 8 decimals).  All membrane bounds  *)
(* (table entry * 0.628e-3), the synaptic bounds 1e-8, 1e-3, 1e-2 and the  *)
(* Q10 bounds 1.0, 2.0, 4.0 are exact in this representation.  np.log is   *)
(* modelled on the powers of ten it is applied to, as exponent * ln(10)    *)
(* computed with 12 decimals of ln(10) and rounded to the nearest 8-decimal *)
(* value: ln(1e-8) = -18.42068074, ln(1e-3) = -6.90775528,                 *)
(* ln(1e-2) = -4.60517019.                                                 *)
(*                                                                         *)
(* Arrays.  A Python value used as a selector is the record                *)
(*   [scalar |-> is it a bare bool, shape |-> numpy shape,                 *)
(*    data |-> the booleans, flattened row-major]                          *)
(* A dict is a function from a set of key strings.                         *)
(***************************************************************************)
EXTENDS Integers, Sequences, FiniteSets, TLC

VARIABLES
    pc,                     \* "idle" | "returned": position of the caller
    call,                   \* the call in progress / last made: operation and arguments
    ret,                    \* what the call produced (or that it raised)
    default_customization,  \* the dict object bound to create_prior's default `customization={}`
    caller_customization,   \* the dict object the caller holds and passes as `customization`
    customization_built,    \* the contents the caller built that object with
    kept                    \* a prior constructed by an earlier call, still held by the caller

vars == <<pc, call, ret, default_customization, caller_customization,
          customization_built, kept>>

----------------------------------------------------------------------------
(* Bounds of the model *)

\* a mask configuration differs from one of the base configurations in at most
\* MaxFlips cells
MaxFlips == 2
\* a customization mapping passed to create_prior has at most MaxKeys keys
MaxKeys == 1
\* explicit bound vectors have NSyn..MaxExplicitLen entries
MaxExplicitLen == 8
\* the customization mapping a caller holds over a sequence of calls has at
\* most MaxSeqKeys keys
MaxSeqKeys == 1

----------------------------------------------------------------------------
(* Generic helpers: numpy / dict primitives *)

RECURSIVE Prod(_)
\* np.prod(shape)
Prod(shape) == IF shape = <<>> THEN 1 ELSE Head(shape) * Prod(Tail(shape))

\* np.ones(n) * value
Full(n, value) == [i \in 1..n |-> value]

RECURSIVE BoolIndex(_, _)
\* values[mask] for two flat sequences of the same length: the entries whose
\* mask cell is True, in order
BoolIndex(values, mask) ==
    IF values = <<>> THEN <<>>
    ELSE (IF Head(mask) THEN <<Head(values)>> ELSE <<>>)
         \o BoolIndex(Tail(values), Tail(mask))

RECURSIVE Flatten(_)
\* row-major flattening of a sequence of rows
Flatten(rows) == IF rows = <<>> THEN <<>> ELSE Head(rows) \o Flatten(Tail(rows))

\* dict.update: the receiver's content afterwards
DictUpdate(d, other) ==
    [k \in (DOMAIN d) \cup (DOMAIN other) |->
        IF k \in DOMAIN other THEN other[k] ELSE d[k]]

EmptyDict == [k \in {} |-> TRUE]

\* a Python list / numpy array of booleans
Arr(shape, data) == [scalar |-> FALSE, shape |-> shape, data |-> data]
\* a bare Python bool
Scalar(b) == [scalar |-> TRUE, shape |-> <<>>, data |-> <<b>>]

----------------------------------------------------------------------------
(* create_prior: the built-in masks *)

Q10Keys ==
    <<"Q10_gbar_mem", "Q10_gbar_syn", "Q10_tau_m", "Q10_tau_h", "Q10_tau_CaBuff",
      "Q10_tau_syn">>

KeySet == {"membrane_gbar"} \cup {Q10Keys[i] : i \in DOMAIN Q10Keys}

\* the shape of each group's built-in mask
DeclaredShape(key) ==
    CASE key = "membrane_gbar" -> <<3, 8>>
      [] key = "Q10_gbar_mem" -> <<8>>
      [] key = "Q10_gbar_syn" -> <<2>>
      [] key = "Q10_tau_m" -> <<1>>
      [] key = "Q10_tau_h" -> <<1>>
      [] key = "Q10_tau_CaBuff" -> <<1>>
      [] key = "Q10_tau_syn" -> <<2>>

\* the literal dict `setups` of create_prior
DefaultSetups ==
    [key \in KeySet |->
        Arr(DeclaredShape(key),
            Full(Prod(DeclaredShape(key)), key = "membrane_gbar"))]

----------------------------------------------------------------------------
(* _get_min_max_membrane_gbar *)

\* 0.628e-3, as the fixed-point value of one hundredth of a table unit
UnitScale == 628

\* the table of minimal values, in hundredths (100 -> 10000, 2.5 -> 250, 0.01 -> 1);
\* rows PM, LP, PY
membrane_cond_mins_table ==
    << <<10000, 250, 200, 1000, 500, 5000, 1, 0>>,
       <<10000, 0, 400, 2000, 0, 2500, 0, 2>>,
       <<10000, 250, 0, 4000, 0, 7500, 0, 0>> >>

\* the table of maximal values, in hundredths
membrane_cond_maxs_table ==
    << <<40000, 500, 600, 5000, 1000, 12500, 1, 0>>,
       <<10000, 0, 1000, 5000, 500, 10000, 5, 3>>,
       <<50000, 1000, 200, 5000, 0, 12500, 5, 3>> >>

\* the padding row, in hundredths
padding_table == <<10000, 250, 200, 1000, 500, 2500, 1, 1>>

padding == [c \in 1..8 |-> padding_table[c] * UnitScale]

\* faulty variant: the minimums after padding, without the clipping at zero
membrane_cond_mins_unclipped ==
    [r \in 1..3 |-> [c \in 1..8 |->
        membrane_cond_mins_table[r][c] * UnitScale - padding[c]]]

\* membrane_cond_mins after scaling, padding (broadcast over the rows) and
\* the assignment membrane_cond_mins[membrane_cond_mins < 0.0] = 0.0
membrane_cond_mins ==
    [r \in 1..3 |-> [c \in 1..8 |->
        LET padded == membrane_cond_mins_table[r][c] * UnitScale - padding[c]
        IN  IF padded < 0 THEN 0 ELSE padded]]

\* faulty variant: the padding is subtracted from the maximums, as it is from the minimums
membrane_cond_maxs_padded_down ==
    [r \in 1..3 |-> [c \in 1..8 |->
        membrane_cond_maxs_table[r][c] * UnitScale - padding[c]]]

\* membrane_cond_maxs after scaling and padding
membrane_cond_maxs ==
    [r \in 1..3 |-> [c \in 1..8 |->
        membrane_cond_maxs_table[r][c] * UnitScale + padding[c]]]

\* table[use_membrane].flatten() for a (3, 8) table: a (3, 8) mask selects
\* cells, a (3,) mask selects rows; any other boolean shape is an IndexError
MaskIndex(table, selector) ==
    IF selector.shape = <<3, 8>>
    THEN [raised |-> FALSE, vals |-> BoolIndex(Flatten(table), selector.data)]
    ELSE IF selector.shape = <<3>>
    THEN [raised |-> FALSE, vals |-> Flatten(BoolIndex(table, selector.data))]
    ELSE [raised |-> TRUE, vals |-> <<>>]

_get_min_max_membrane_gbar(selector) ==
    LET mins == MaskIndex(membrane_cond_mins, selector)
        maxs == MaskIndex(membrane_cond_maxs, selector)
    IN  [raised |-> mins.raised \/ maxs.raised, mins |-> mins.vals, maxs |-> maxs.vals]

----------------------------------------------------------------------------
(* _get_min_max_synapse_gbar *)

\* the number of synaptic conductances
NSyn == 7

\* ln(10) = 2.302585092994...: its first 8 decimals as a fixed-point value
Ln10 == 230258509
\* ... and its next 4 decimals, in units of 10^-12
Ln10Frac == 2994

RECURSIVE Log10(_)
\* the decimal exponent of a positive integer (exact on powers of ten)
Log10(n) == IF n < 10 THEN 0 ELSE 1 + Log10(n \div 10)

\* np.log of a fixed-point value x = 10^k * 10^-8:  (k - 8) * ln(10), rounded
\* to the nearest fixed-point value (\div rounds down, hence the + 5000)
Log(x) ==
    LET e == Log10(x) - 8
    IN  e * Ln10 + ((e * Ln10Frac + 5000) \div 10000)

\* faulty variant: the last channel's maximum is scaled instead of the first
synapse_gbar_scale_last(min_val, max_val, log_space) ==
    LET syn_dim_mins == Full(NSyn, min_val)
        syn_dim_maxs == [Full(NSyn, max_val) EXCEPT ![NSyn] = @ * 10]
    IN  IF log_space
        THEN [mins |-> [i \in 1..NSyn |-> Log(syn_dim_mins[i])],
              maxs |-> [i \in 1..NSyn |-> Log(syn_dim_maxs[i])]]
        ELSE [mins |-> syn_dim_mins, maxs |-> syn_dim_maxs]

_get_min_max_synapse_gbar(min_val, max_val, log_space) ==
    LET syn_dim_mins == Full(NSyn, min_val)
        syn_dim_maxs == [Full(NSyn, max_val) EXCEPT ![1] = @ * 10]
    IN  IF log_space
        THEN [mins |-> [i \in 1..NSyn |-> Log(syn_dim_mins[i])],
              maxs |-> [i \in 1..NSyn |-> Log(syn_dim_maxs[i])]]
        ELSE [mins |-> syn_dim_mins, maxs |-> syn_dim_maxs]

----------------------------------------------------------------------------
(* _select *)

\* faulty variant: the maximums are returned without applying the selector
select_max_unselected(minimum_val, maximum_val, selector) ==
    LET ndims == Prod(selector.shape)
    IN  [mins |-> BoolIndex(Full(ndims, minimum_val), selector.data),
         maxs |-> Full(ndims, maximum_val)]

\* ndims is taken from the selector's own shape; the selector is 1-D here, so
\* min_vals[selector] is the plain boolean selection
_select(minimum_val, maximum_val, selector) ==
    LET ndims == Prod(selector.shape)
        min_vals == Full(ndims, minimum_val)
        max_vals == Full(ndims, maximum_val)
    IN  [mins |-> BoolIndex(min_vals, selector.data),
         maxs |-> BoolIndex(max_vals, selector.data)]

----------------------------------------------------------------------------
(* prior_bounds *)

\* prior bounds for Q10 values: 1.0, 2.0, 1.0, 4.0
g_min == 100000000
g_max == 200000000
tau_min == 100000000
tau_max == 400000000

\* the per-group bounds, computed before the two concatenations; the synaptic
\* bounds are computed from 1e-08 and 0.001
BoundGroups(setups, synapses_log_space) ==
    [gbar |-> _get_min_max_membrane_gbar(setups["membrane_gbar"]),
     syn |-> _get_min_max_synapse_gbar(1, 100000, synapses_log_space),
     q10_mem_gbar |-> _select(g_min, g_max, setups["Q10_gbar_mem"]),
     q10_syn_gbar |-> _select(g_min, g_max, setups["Q10_gbar_syn"]),
     q10_tau_m |-> _select(tau_min, tau_max, setups["Q10_tau_m"]),
     q10_tau_h |-> _select(tau_min, tau_max, setups["Q10_tau_h"]),
     q10_tau_ca |-> _select(tau_min, tau_max, setups["Q10_tau_CaBuff"]),
     q10_syn_tau |-> _select(tau_min, tau_max, setups["Q10_tau_syn"])]

\* faulty variant: u_bound is concatenated with the synaptic bounds first
prior_bounds_u_syn_first(setups, synapses_log_space) ==
    LET g == BoundGroups(setups, synapses_log_space)
    IN  [raised |-> g.gbar.raised,
         l_bound |-> IF g.gbar.raised THEN <<>> ELSE Flatten(<<g.gbar.mins, g.syn.mins, g.q10_mem_gbar.mins,
                               g.q10_syn_gbar.mins, g.q10_tau_m.mins, g.q10_tau_h.mins,
                               g.q10_tau_ca.mins, g.q10_syn_tau.mins>>),
         u_bound |-> IF g.gbar.raised THEN <<>> ELSE Flatten(<<g.syn.maxs, g.gbar.maxs, g.q10_mem_gbar.maxs,
                               g.q10_syn_gbar.maxs, g.q10_tau_m.maxs, g.q10_tau_h.maxs,
                               g.q10_tau_ca.maxs, g.q10_syn_tau.maxs>>),
         gbar_l |-> g.gbar.mins,
         gbar_u |-> g.gbar.maxs]

\* raised: the IndexError of the membrane selection, and then nothing is
\* returned; gbar_l, gbar_u: the locals of that name, kept for inspection
prior_bounds(setups, synapses_log_space) ==
    LET g == BoundGroups(setups, synapses_log_space)
    IN  [raised |-> g.gbar.raised,
         l_bound |-> IF g.gbar.raised THEN <<>> ELSE Flatten(<<g.gbar.mins, g.syn.mins, g.q10_mem_gbar.mins,
                               g.q10_syn_gbar.mins, g.q10_tau_m.mins, g.q10_tau_h.mins,
                               g.q10_tau_ca.mins, g.q10_syn_tau.mins>>),
         u_bound |-> IF g.gbar.raised THEN <<>> ELSE Flatten(<<g.gbar.maxs, g.syn.maxs, g.q10_mem_gbar.maxs,
                               g.q10_syn_gbar.maxs, g.q10_tau_m.maxs, g.q10_tau_h.maxs,
                               g.q10_tau_ca.maxs, g.q10_syn_tau.maxs>>),
         gbar_l |-> g.gbar.mins,
         gbar_u |-> g.gbar.maxs]

----------------------------------------------------------------------------
(* pyloric.utils and sbi.utils, as create_prior uses them *)

\* called with the value alone: a bare bool becomes a one-element array, a
\* sequence becomes the array of its own shape
ensure_array_not_scalar(selector) ==
    IF selector.scalar THEN Arr(<<1>>, selector.data) ELSE selector

NeuronTypes == <<"PM", "LP", "PY">>

\* one (type name, channel) label per active entry, selected by the same masks
\* in the same group order as the bounds
select_names(setups) ==
    LET membrane == MaskIndex([r \in 1..3 |-> [c \in 1..8 |-> <<NeuronTypes[r], c>>]],
                              setups["membrane_gbar"])
        q10(key) == BoolIndex([i \in 1..Prod(setups[key].shape) |-> <<key, i>>],
                              setups[key].data)
    IN  [raised |-> membrane.raised,
         names |-> membrane.vals \o [i \in 1..NSyn |-> <<"Synapses", i>>]
                   \o Flatten([i \in DOMAIN Q10Keys |-> q10(Q10Keys[i])])]

\* the box-uniform distribution is built only from two vectors of one length
BoxUniform(lower, upper) == [raised |-> Len(lower) # Len(upper)]

----------------------------------------------------------------------------
(* create_prior *)

\* pd_prior.__init__: torch.tensor copies the two vectors
pd_prior(lower, upper, parameter_names) ==
    [raised |-> BoxUniform(lower, upper).raised,
     lower |-> lower, upper |-> upper, names |-> parameter_names]

\* faulty variant: the merged mapping is the customization object itself
setups_update_aliased(setups, customization) ==
    [setups |-> DictUpdate(setups, customization),
     customization |-> DictUpdate(setups, customization)]

\* setups.update(customization): the two dict objects after the statement
setups_update(setups, customization) ==
    [setups |-> DictUpdate(setups, customization),
     customization |-> customization]

\* faulty variant: Q10_tau_m is selected by default
setups_literal_tau_m_on ==
    [DefaultSetups EXCEPT !["Q10_tau_m"] = Arr(<<1>>, <<TRUE>>)]

\* the dict literal bound to `setups` on entry
setups_literal == DefaultSetups

\* an optional bound vector: None, or an array
NoBound == [given |-> FALSE, vec |-> <<>>]

\* the whole body: what the call returns (or that it raised), with the
\* locals setups, l_bound, u_bound and the customization object afterwards
create_prior(lower_bound, upper_bound, customization, synapses_log_space) ==
    LET upd == setups_update(setups_literal, customization)
        setups == [key \in DOMAIN upd.setups |-> ensure_array_not_scalar(upd.setups[key])]
        b == prior_bounds(setups, synapses_log_space)
        lower == IF lower_bound.given THEN lower_bound.vec ELSE b.l_bound
        upper == IF upper_bound.given THEN upper_bound.vec ELSE b.u_bound
        n == select_names(setups)
        prior == pd_prior(lower, upper, n.names)
        raised == b.raised \/ n.raised \/ prior.raised
    IN  [raised |-> raised,
         lower |-> IF raised THEN <<>> ELSE prior.lower,
         upper |-> IF raised THEN <<>> ELSE prior.upper,
         names |-> IF raised THEN <<>> ELSE prior.names,
         setups |-> setups,
         l_bound |-> b.l_bound,
         u_bound |-> b.u_bound,
         gbar_l |-> b.gbar_l,
         gbar_u |-> b.gbar_u,
         customization |-> upd.customization]

----------------------------------------------------------------------------
(* The inputs the callers draw from *)

RECURSIVE KSubsets(_, _)
\* the subsets of S with at most n elements
KSubsets(S, n) ==
    IF n = 0 THEN {{}}
    ELSE LET smaller == KSubsets(S, n - 1)
         IN  smaller \cup {T \cup {x} : T \in smaller, x \in S}

\* the mask of a group's declared shape with every cell b
UniformMask(key, b) == Arr(DeclaredShape(key), Full(Prod(DeclaredShape(key)), b))

AllCells == {<<key, i>> : key \in KeySet, i \in 1..8} \cup
            {<<"membrane_gbar", i>> : i \in 1..24}

Cells == {c \in AllCells : c[2] <= Prod(DeclaredShape(c[1]))}

\* the base configurations: all groups all False, all groups all True, the
\* built-in masks (membrane on, Q10 off) and their inverse
BaseConfigs ==
    {[key \in KeySet |-> m # (q /\ key = "membrane_gbar")] : m \in BOOLEAN, q \in BOOLEAN}

\* the valid mask configurations: every group a boolean array of its declared
\* shape; a base configuration with the cells of `flipped` inverted
ValidSetups ==
    {[key \in KeySet |->
        Arr(DeclaredShape(key),
            [i \in 1..Prod(DeclaredShape(key)) |-> base[key] # (<<key, i>> \in flipped)])] :
        base \in BaseConfigs, flipped \in KSubsets(Cells, MaxFlips)}

\* a group name that is not one of the seven
UnknownKey == "Q10_tau_mem"

\* what a customization may give for a key: a bare bool, or (for the seven
\* groups) a uniform mask of the declared shape
CustomValues(key) ==
    {Scalar(TRUE), Scalar(FALSE)} \cup
    (IF key \in KeySet THEN {UniformMask(key, TRUE), UniformMask(key, FALSE)} ELSE {})

AllCustomValues == UNION {CustomValues(key) : key \in KeySet \cup {UnknownKey}}

\* the customization mappings with at most n keys
Customizations(n) ==
    UNION {{f \in [K -> AllCustomValues] : \A key \in K : f[key] \in CustomValues(key)} :
            K \in KSubsets(KeySet \cup {UnknownKey}, n)}

\* explicit bound vectors: zeros for lower, ones for upper
ExplicitLower == {[given |-> TRUE, vec |-> Full(n, 0)] : n \in NSyn..MaxExplicitLen}
ExplicitUpper == {[given |-> TRUE, vec |-> Full(n, g_min)] : n \in NSyn..MaxExplicitLen}

\* the arguments of a create_prior call; passed = FALSE: the customization
\* argument is omitted and the parameter is bound to the shared default object
CreateArgs(n) ==
    {[lower_bound |-> lb, upper_bound |-> ub, customization |-> c, passed |-> TRUE,
      synapses_log_space |-> ls] :
        lb \in {NoBound} \cup ExplicitLower, ub \in {NoBound} \cup ExplicitUpper,
        c \in Customizations(n), ls \in BOOLEAN}
    \cup
    {[lower_bound |-> lb, upper_bound |-> ub, customization |-> EmptyDict, passed |-> FALSE,
      synapses_log_space |-> ls] :
        lb \in {NoBound} \cup ExplicitLower, ub \in {NoBound} \cup ExplicitUpper,
        ls \in BOOLEAN}

----------------------------------------------------------------------------
(* State machine: a caller that calls prior_bounds and create_prior *)

NoArgs ==
    [lower_bound |-> NoBound, upper_bound |-> NoBound, customization |-> EmptyDict,
     passed |-> FALSE, synapses_log_space |-> TRUE]

NoCall == [op |-> "none", args |-> NoArgs, setups |-> EmptyDict]

NoRet ==
    [raised |-> FALSE, lower |-> <<>>, upper |-> <<>>, names |-> <<>>,
     setups |-> EmptyDict, l_bound |-> <<>>, u_bound |-> <<>>, gbar_l |-> <<>>,
     gbar_u |-> <<>>, customization |-> EmptyDict]

NoPrior == [has |-> FALSE, args |-> NoArgs, lower |-> <<>>, upper |-> <<>>, names |-> <<>>]

Init ==
    /\ pc = "idle"
    /\ call = NoCall
    /\ ret = NoRet
    /\ default_customization = EmptyDict
    /\ caller_customization = EmptyDict
    /\ customization_built = EmptyDict
    /\ kept = NoPrior

\* prior_bounds(setups, synapses_log_space) on a valid mask configuration
PriorBoundsCall ==
    /\ pc = "idle"
    /\ \E setups \in ValidSetups, ls \in BOOLEAN :
        LET b == prior_bounds(setups, ls)
        IN  /\ call' = [op |-> "prior_bounds",
                        args |-> [NoArgs EXCEPT !.synapses_log_space = ls],
                        setups |-> setups]
            /\ ret' = [NoRet EXCEPT !.raised = b.raised, !.setups = setups,
                                    !.l_bound = b.l_bound, !.u_bound = b.u_bound,
                                    !.gbar_l = b.gbar_l, !.gbar_u = b.gbar_u]
    /\ pc' = "returned"
    /\ UNCHANGED <<default_customization, caller_customization, customization_built, kept>>

\* The objects that outlive a call are the function's default dict, the
\* caller's mapping and a prior the caller kept.  The dict literal bound to
\* `setups` and the tables are evaluated anew by every call (setups_literal,
\* membrane_cond_mins, ...), so they are operators and not state.  A call is
\* handed the default dict or the caller's mapping; it is never handed a prior.
\*
\* create_prior(**args): the parameter `customization` is bound to the shared
\* default object when the argument is omitted, to the object the caller holds
\* when `held`, and to a mapping built for this call otherwise; the call leaves
\* the object it was bound to as the body left it
DoCreatePrior(args, held) ==
    LET customization ==
            IF ~args.passed THEN default_customization
            ELSE IF held THEN caller_customization
            ELSE args.customization
        r == create_prior(args.lower_bound, args.upper_bound, customization,
                          args.synapses_log_space)
    IN  /\ call' = [op |-> "create_prior", args |-> args, setups |-> EmptyDict]
        /\ ret' = r
        /\ default_customization' =
               IF args.passed THEN default_customization ELSE ret'.customization
        /\ caller_customization' =
               IF args.passed /\ held THEN ret'.customization ELSE caller_customization
        /\ pc' = "returned"
        /\ UNCHANGED <<customization_built, kept>>

CreatePriorCall ==
    /\ pc = "idle"
    /\ \E args \in CreateArgs(MaxKeys) : DoCreatePrior(args, FALSE)

\* the caller drops the result
Return ==
    /\ pc = "returned"
    /\ pc' = "idle"
    /\ call' = NoCall
    /\ ret' = NoRet
    /\ UNCHANGED <<default_customization, caller_customization, customization_built, kept>>

Next == PriorBoundsCall \/ CreatePriorCall \/ Return

Spec == Init /\ [][Next]_vars

(* Sequences of create_prior calls: the caller has built one customization   *)
(* mapping, passes that object (or omits the argument) call after call, and  *)
(* holds on to one of the priors                                             *)

InitSeq ==
    /\ pc = "idle"
    /\ call = NoCall
    /\ ret = NoRet
    /\ default_customization = EmptyDict
    /\ caller_customization \in Customizations(MaxSeqKeys)
    /\ customization_built = caller_customization
    /\ kept = NoPrior

\* explicit bound vectors of the shortest and of the longest length
SeqExplicitLower == {b \in ExplicitLower : Len(b.vec) \in {NSyn, MaxExplicitLen}}
SeqExplicitUpper == {b \in ExplicitUpper : Len(b.vec) \in {NSyn, MaxExplicitLen}}

\* the argument records of the calls of a sequence: the customization is the
\* mapping the caller holds, as it is now, or is omitted
SeqArgs ==
    {[lower_bound |-> lb, upper_bound |-> ub,
      customization |-> IF passed THEN caller_customization ELSE EmptyDict,
      passed |-> passed, synapses_log_space |-> ls] :
        lb \in {NoBound} \cup SeqExplicitLower, ub \in {NoBound} \cup SeqExplicitUpper,
        passed \in BOOLEAN, ls \in BOOLEAN}

CreatePriorSeqCall ==
    /\ pc = "idle"
    /\ \E args \in SeqArgs : DoCreatePrior(args, TRUE)

\* the caller keeps the prior that was returned
Keep ==
    /\ pc = "returned"
    /\ call.op = "create_prior"
    /\ ~ret.raised
    /\ ~kept.has
    /\ kept' = [has |-> TRUE, args |-> call.args, lower |-> ret.lower,
                upper |-> ret.upper, names |-> ret.names]
    /\ pc' = "idle"
    /\ call' = NoCall
    /\ ret' = NoRet
    /\ UNCHANGED <<default_customization, caller_customization, customization_built>>

NextSeq == CreatePriorSeqCall \/ Return \/ Keep

SpecSeq == InitSeq /\ [][NextSeq]_vars

----------------------------------------------------------------------------
(* Properties *)

Returned(op) == pc = "returned" /\ call.op = op

\* the number of True cells over the seven masks of a valid configuration
CountTrue(setups) == Cardinality({c \in Cells : setups[c[1]].data[c[2]]})

NoExplicitBounds == ~call.args.lower_bound.given /\ ~call.args.upper_bound.given

\* C1 as stated: the bound vectors returned by prior_bounds have one common
\* length, the number of True cells over all selection masks
C1_LengthIsTrueCount ==
    Returned("prior_bounds") =>
        /\ Len(ret.l_bound) = Len(ret.u_bound)
        /\ Len(ret.l_bound) = CountTrue(call.setups)

\* C1 amended: the bound vectors returned by prior_bounds have one common
\* length, the number of True cells over all selection masks plus the seven
\* synaptic conductances, which have no mask
C1_LengthIsTrueCountPlusSynapses ==
    Returned("prior_bounds") =>
        /\ ~ret.raised
        /\ Len(ret.l_bound) = Len(ret.u_bound)
        /\ Len(ret.l_bound) = CountTrue(call.setups) + NSyn

\* C1 witness: a reachable state in which the case of C1 has happened
C1_Witness ==
    /\ Returned("prior_bounds")
    /\ ~call.args.synapses_log_space
    /\ call.setups["Q10_gbar_mem"].data[3]
    /\ CountTrue(call.setups) = 2
    /\ Len(ret.u_bound) = 9

\* C2: every entry of the computed lower bound is at most the entry of the
\* computed upper bound at the same index
C2_LowerAtMostUpper ==
    pc = "returned" =>
        /\ Len(ret.l_bound) = Len(ret.u_bound)
        /\ \A i \in DOMAIN ret.l_bound : ret.l_bound[i] <= ret.u_bound[i]

\* C2 witness: a reachable state in which the case of C2 has happened
C2_Witness ==
    /\ Returned("prior_bounds")
    /\ call.args.synapses_log_space
    /\ CountTrue(call.setups) = Cardinality(Cells)
    /\ Len(ret.l_bound) = Cardinality(Cells) + NSyn
    /\ ret.l_bound[10] = ret.u_bound[10] - padding[2]

\* C6: every membrane lower bound that is returned is >= 0
C6_MembraneMinsNonNegative ==
    pc = "returned" => \A i \in DOMAIN ret.gbar_l : ret.gbar_l[i] >= 0

\* the cell LP / column 2 (0.0 - 2.5 before clipping) is selected and is 0
\* C6 witness: a reachable state in which the case of C6 has happened
C6_Witness ==
    /\ Returned("prior_bounds")
    /\ call.setups["membrane_gbar"].data[10]
    /\ ~call.setups["membrane_gbar"].data[9]
    /\ Len(ret.gbar_l) = 23
    /\ ret.gbar_l[9] = 0

\* the entries the bound vectors can have, in the stated group order:
\* membrane (row-major), synaptic, then the six Q10 groups
CanonicalOrder ==
    [i \in 1..24 |-> <<"membrane_gbar", i>>]
    \o [i \in 1..NSyn |-> <<"synapse", i>>]
    \o [i \in 1..8 |-> <<"Q10_gbar_mem", i>>]
    \o [i \in 1..2 |-> <<"Q10_gbar_syn", i>>]
    \o <<(<<"Q10_tau_m", 1>>), (<<"Q10_tau_h", 1>>), (<<"Q10_tau_CaBuff", 1>>)>>
    \o [i \in 1..2 |-> <<"Q10_tau_syn", i>>]

IsActive(setups, cell) == cell[1] = "synapse" \/ setups[cell[1]].data[cell[2]]

\* the index in the bound vectors of the active entry at canonical position p
Rank(setups, p) == Cardinality({q \in 1..p : IsActive(setups, CanonicalOrder[q])})

\* the reference bounds of one cell: ln(1e-8), ln(1e-2), ln(1e-3) in log space
ExpectedLower(cell, log_space) ==
    CASE cell[1] = "membrane_gbar" ->
            membrane_cond_mins[((cell[2] - 1) \div 8) + 1][((cell[2] - 1) % 8) + 1]
      [] cell[1] = "synapse" -> IF log_space THEN -1842068074 ELSE 1
      [] cell[1] \in {"Q10_gbar_mem", "Q10_gbar_syn"} -> g_min
      [] OTHER -> tau_min

ExpectedUpper(cell, log_space) ==
    CASE cell[1] = "membrane_gbar" ->
            membrane_cond_maxs[((cell[2] - 1) \div 8) + 1][((cell[2] - 1) % 8) + 1]
      [] cell[1] = "synapse" /\ cell[2] = 1 -> IF log_space THEN -460517019 ELSE 1000000
      [] cell[1] = "synapse" /\ cell[2] # 1 -> IF log_space THEN -690775528 ELSE 100000
      [] cell[1] \in {"Q10_gbar_mem", "Q10_gbar_syn"} -> g_max
      [] OTHER -> tau_max

\* C10: lower and upper are each the concatenation, in the fixed group order,
\* of the selected cells' bounds: the k-th active cell of the canonical order
\* gives entry k of lower and entry k of upper
C10_CanonicalConcatenation ==
    Returned("prior_bounds") =>
        /\ Len(ret.l_bound) = Rank(call.setups, Len(CanonicalOrder))
        /\ Len(ret.u_bound) = Rank(call.setups, Len(CanonicalOrder))
        /\ \A p \in DOMAIN CanonicalOrder :
            IsActive(call.setups, CanonicalOrder[p]) =>
                /\ ret.l_bound[Rank(call.setups, p)] =
                       ExpectedLower(CanonicalOrder[p], call.args.synapses_log_space)
                /\ ret.u_bound[Rank(call.setups, p)] =
                       ExpectedUpper(CanonicalOrder[p], call.args.synapses_log_space)

\* every group is partly selected or selected: two cells are off, one of them
\* a membrane cell, so later entries shift
\* C10 witness: a reachable state in which the case of C10 has happened
C10_Witness ==
    /\ Returned("prior_bounds")
    /\ ~call.setups["membrane_gbar"].data[5]
    /\ ~call.setups["Q10_gbar_mem"].data[2]
    /\ CountTrue(call.setups) = Cardinality(Cells) - 2
    /\ Len(ret.l_bound) = Len(CanonicalOrder) - 2
    /\ ret.u_bound[Len(ret.u_bound)] = tau_max

DefaultCall ==
    /\ Returned("create_prior")
    /\ call.args.customization = EmptyDict
    /\ NoExplicitBounds
    /\ call.args.synapses_log_space

\* C7: with no customization, no explicit bounds and log-space synapses the
\* bound vectors have 31 entries: the 24 membrane entries, then the 7 synaptic
\* entries, and none of a Q10 group
C7_DefaultHas31Entries ==
    DefaultCall =>
        /\ ~ret.raised
        /\ Len(ret.lower) = 31 /\ Len(ret.upper) = 31 /\ Len(ret.names) = 31
        /\ SubSeq(ret.lower, 1, 24) = Flatten(membrane_cond_mins)
        /\ SubSeq(ret.upper, 1, 24) = Flatten(membrane_cond_maxs)
        /\ \A i \in 25..31 :
            /\ ret.lower[i] = ExpectedLower(<<"synapse", i - 24>>, TRUE)
            /\ ret.upper[i] = ExpectedUpper(<<"synapse", i - 24>>, TRUE)

\* the call that omits the customization argument
\* C7 witness: a reachable state in which the case of C7 has happened
C7_Witness == DefaultCall /\ ~call.args.passed /\ Len(ret.lower) = 31

MembraneOffCall ==
    /\ Returned("create_prior")
    /\ call.args.customization =
           [key \in {"membrane_gbar"} |-> UniformMask("membrane_gbar", FALSE)]
    /\ NoExplicitBounds
    /\ call.args.synapses_log_space

\* C8: with all 24 membrane entries False, default Q10 masks and log-space
\* synapses the prior has 7 parameters, lower = ln(1e-8) seven times,
\* upper = ln(1e-2) followed by ln(1e-3) six times
C8_MembraneOffBounds ==
    MembraneOffCall =>
        /\ ~ret.raised
        /\ ret.lower = <<-1842068074, -1842068074, -1842068074, -1842068074,
                         -1842068074, -1842068074, -1842068074>>
        /\ ret.upper = <<-460517019, -690775528, -690775528, -690775528,
                         -690775528, -690775528, -690775528>>
        /\ Len(ret.names) = 7
        /\ \A i \in 1..7 : ret.names[i][1] = "Synapses"

\* C8 witness: a reachable state in which the case of C8 has happened
C8_Witness == MembraneOffCall /\ Len(ret.lower) = 7 /\ ~ret.raised

\* C3 as stated: create_prior fails when the customization has a key that is
\* not one of the seven group names
C3_UnknownKeyFails ==
    (Returned("create_prior") /\ UnknownKey \in DOMAIN call.args.customization)
        => ret.raised

\* C4 as stated: a prior is returned only if its lower and upper vectors have
\* as many entries as there are active parameters (the length of the computed
\* bounds and of the names)
C4_ExplicitLengthEnforced ==
    (Returned("create_prior") /\ ~ret.raised) =>
        /\ Len(ret.lower) = Len(ret.l_bound)
        /\ Len(ret.upper) = Len(ret.u_bound)
        /\ Len(ret.lower) = Len(ret.names)

\* the mask configuration a customization stands for when every bare bool is
\* broadcast to its group's declared shape
BroadcastSetups(customization) ==
    [key \in KeySet |->
        IF key \in DOMAIN customization
        THEN (IF customization[key].scalar
              THEN UniformMask(key, customization[key].data[1])
              ELSE customization[key])
        ELSE DefaultSetups[key]]

HasScalar(customization) ==
    \E key \in KeySet \cap DOMAIN customization : customization[key].scalar

\* C5 as stated: a bare bool given for a group selects every cell of the group
\* (True) or none (False): the bounds are those of the broadcast masks
C5_ScalarIsBroadcast ==
    (Returned("create_prior") /\ HasScalar(call.args.customization) /\ NoExplicitBounds) =>
        /\ ~ret.raised
        /\ Len(ret.lower) = CountTrue(BroadcastSetups(call.args.customization)) + NSyn
        /\ Len(ret.upper) = CountTrue(BroadcastSetups(call.args.customization)) + NSyn

\* the masks a call's own arguments select, cell by cell: the value given
\* for a group, else the built-in one; a bare bool stands for one entry
OwnMasks(customization) ==
    [key \in KeySet |->
        [data |-> [i \in 1..Prod(DeclaredShape(key)) |->
            IF key \in DOMAIN customization
            THEN IF customization[key].scalar
                 THEN i = 1 /\ customization[key].data[1]
                 ELSE customization[key].data[i]
            ELSE DefaultSetups[key].data[i]]]]

\* the cells a call's own arguments select, in the canonical order
OwnCells(customization) ==
    LET masks == OwnMasks(customization)
        Selected(cell) == IsActive(masks, cell)
    IN  SelectSeq(CanonicalOrder, Selected)

\* the customization a call's arguments stand for: the mapping as the caller
\* built it, or nothing
OwnCustomization(args) == IF args.passed THEN customization_built ELSE EmptyDict

\* a bare bool for the membrane group cannot index the (3, 8) tables
MembraneIsScalar(customization) ==
    "membrane_gbar" \in DOMAIN customization /\ customization["membrane_gbar"].scalar

\* the same arguments: the same bounds, the same flag, the same mapping object
\* passed or omitted
SameArguments(a, b) ==
    /\ a.lower_bound = b.lower_bound
    /\ a.upper_bound = b.upper_bound
    /\ a.passed = b.passed
    /\ a.synapses_log_space = b.synapses_log_space

\* what a call yields is what its own arguments determine from the built-in
\* masks and the catalog tables: every group the arguments say nothing about
\* is worked with under its built-in mask, and whether the call fails, the
\* computed bounds, and the lower and upper vectors and the number of names of
\* the prior are those of the selected cells
YieldsOwnBounds ==
    pc = "returned" =>
        LET args == call.args
            own == OwnCustomization(args)
            cells == OwnCells(own)
            n == Len(cells)
            lower_len == IF args.lower_bound.given THEN Len(args.lower_bound.vec) ELSE n
            upper_len == IF args.upper_bound.given THEN Len(args.upper_bound.vec) ELSE n
        IN  /\ \A key \in KeySet \ DOMAIN own : ret.setups[key] = DefaultSetups[key]
            /\ ret.raised = (MembraneIsScalar(own) \/ lower_len # upper_len)
            /\ ~MembraneIsScalar(own) =>
                /\ ret.l_bound =
                     [k \in 1..n |-> ExpectedLower(cells[k], args.synapses_log_space)]
                /\ ret.u_bound =
                     [k \in 1..n |-> ExpectedUpper(cells[k], args.synapses_log_space)]
            /\ ~ret.raised =>
                /\ ret.lower = IF args.lower_bound.given
                               THEN args.lower_bound.vec ELSE ret.l_bound
                /\ ret.upper = IF args.upper_bound.given
                               THEN args.upper_bound.vec ELSE ret.u_bound
                /\ Len(ret.names) = n

\* a call with the arguments of the kept prior yields that prior's vectors
YieldsKeptAgain ==
    (pc = "returned" /\ kept.has /\ SameArguments(call.args, kept.args)) =>
        /\ ~ret.raised
        /\ ret.lower = kept.lower
        /\ ret.upper = kept.upper
        /\ ret.names = kept.names

\* C9: over any sequence of create_prior calls, no call changes the shared
\* default customization object, no call changes the mapping the caller
\* passes, and a prior constructed earlier stays as it was; and so, whatever
\* calls came before, a call fails or succeeds and yields the lower and upper
\* vectors that its own arguments determine from the built-in masks and the
\* catalog tables, and a call with the arguments of the kept prior yields that
\* prior's lower, upper and names again
C9_CallsAreIndependent ==
    /\ [][/\ default_customization' = default_customization
          /\ caller_customization' = caller_customization
          /\ kept.has => kept' = kept]_vars
    /\ [](YieldsOwnBounds /\ YieldsKeptAgain)

\* the caller built a mapping that selects both synaptic Q10 entries, kept the
\* prior of a first call that passed it, and passed the same object again
\* C9 witness: a reachable state in which the case of C9 has happened
C9_Witness ==
    /\ pc = "returned"
    /\ kept.has
    /\ call.args.passed
    /\ customization_built =
           [key \in {"Q10_gbar_syn"} |-> UniformMask("Q10_gbar_syn", TRUE)]
    /\ caller_customization = customization_built
    /\ SameArguments(call.args, kept.args)
    /\ NoExplicitBounds
    /\ ret.lower = kept.lower
    /\ Len(kept.lower) = 33

====
